---------------------------- MODULE Spec2Model ----------------------------
(***************************************************************************)
(* The crossword CSP engine of Project-3a-Crossword/generate.py            *)
(* (class CrosswordCreator): node consistency, AC-3, the MRV/degree and    *)
(* LCV heuristics and backtracking search with forward checking.           *)
(*                                                                         *)
(* The engine consumes a puzzle structure (class Crossword / Variable of   *)
(* the module `crossword`), whose code is not part of the sources; it is   *)
(* modelled from the specification: a slot is the record of the fields the *)
(* engine reads (i, j, direction, length), the overlap of two slots is the *)
(* index pair of their shared cell, and two slots are neighbors iff they   *)
(* have an overlap.                                                        *)
(*                                                                         *)
(* Python iterates a set in an order the language does not fix (and that   *)
(* string hashing changes from one process to the next).  Every place      *)
(* where the engine's result depends on such an order is a                 *)
(* nondeterministic choice here: the order of the initial AC-3 worklist,   *)
(* the order in which arcs are re-enqueued, the first maximal element      *)
(* taken by max(), and the order of equal keys kept by the stable sorted().*)
(***************************************************************************)
EXTENDS Naturals, Sequences, FiniteSets

VARIABLES
    crossword,   \* self.crossword: [variables, words, overlaps]
    domains,     \* self.domains: slot -> set of words
    pc,          \* position of the control flow inside solve() / ac3()
    ctx,         \* who called the running ac3: "pre" (solve), "fwd" (backtrack), "call" (a direct call)
    full,        \* TRUE iff the running / last ac3 call had arcs=None
    queue,       \* the worklist of ac3
    ac3_ok,      \* return value of the last ac3 call (read at pc = "ac3_returned")
    ac3_entry,   \* the domains when the running / last ac3 call was entered
    stack,       \* the active backtrack calls, outermost first
    arg,         \* the assignment handed to the backtrack call being entered
    retval,      \* return value of the backtrack call that just returned
    result,      \* what solve() returned (read at pc = "done")
    op,          \* the operation the last step performed
    rerun,       \* FALSE in the first run of the program, TRUE in the second
    first,       \* what solve() returned in the first run
    call         \* a method called directly: its name and arguments, else None

vars == <<crossword, domains, pc, ctx, full, queue, ac3_ok, ac3_entry,
          stack, arg, retval, result, op, rerun, first, call>>

---------------------------------------------------------------------------
(* Bounds of the model.                                                    *)

\* largest number of words in a word list
MaxWords == 3

\* largest number of arcs a caller hands to ac3 directly
MaxArcs == 2

---------------------------------------------------------------------------
(* The puzzle structure (module crossword, modelled from the spec).        *)

ACROSS == "across"
DOWN == "down"

Variable(i, j, direction, length) ==
    [i |-> i, j |-> j, direction |-> direction, length |-> length]

\* the k-th cell (from 0) of a slot, as letter_grid walks it
Cell(v, k) ==
    << v.i + (IF v.direction = DOWN THEN k ELSE 0),
       v.j + (IF v.direction = ACROSS THEN k ELSE 0) >>

Cells(v) == { Cell(v, k) : k \in 0..(v.length - 1) }

\* Python's None, for an overlap and for a search result
None == <<>>

\* a present optional value
Some(a) == <<a>>

\* the index pair (i, j) of the cell two slots share, or None
SharedCell(x, y) ==
    IF Cells(x) \cap Cells(y) = {}
    THEN None
    ELSE CHOOSE p \in (0..(x.length - 1)) \X (0..(y.length - 1)) :
            Cell(x, p[1]) = Cell(y, p[2])

SlotA == Variable(0, 0, ACROSS, 4)
SlotB == Variable(0, 1, DOWN, 4)
SlotC == Variable(0, 3, DOWN, 4)
SlotD == Variable(2, 0, ACROSS, 4)
SlotE == Variable(2, 0, ACROSS, 2)
SlotF == Variable(0, 0, DOWN, 4)

\* The structures the model runs on, each the slot set of a real grid
\* (_ an open cell, # a blocked one):
\*   {}            a grid with no run of two or more open cells
\*   {A}           ____
\*   {A, F}        ____ / _### / _### / _###   crossing at their first letters
\*   {A, B}        ____ / #_## / #_## / #_##   A's 2nd letter is B's 1st
\*   {A, E}        ____ / #### / __##          different lengths, no overlap
\*   {A, B, C}     ____ / #_#_ / #_#_ / #_#_   B and C hang from A
\*   {A, B, C, D}  ____ / #_#_ / ____ / #_#_   a ring of four slots
Structures ==
    { {}, {SlotA}, {SlotA, SlotF}, {SlotA, SlotB}, {SlotA, SlotE},
      {SlotA, SlotB, SlotC}, {SlotA, SlotB, SlotC, SlotD} }

\* the scenario of two length-3 slots that cross at their first letters:
\*   ___ / _## / _##
SlotG == Variable(0, 0, ACROSS, 3)
SlotH == Variable(0, 0, DOWN, 3)

Scenario == {SlotG, SlotH}

AllSlots == UNION Structures \cup Scenario

\* crossword.overlaps: an entry for every ordered pair of distinct slots
OverlapMap ==
    [p \in { q \in AllSlots \X AllSlots : q[1] # q[2] } |->
        SharedCell(p[1], p[2])]

\* crossword.overlaps of a structure: an entry, an index pair or None, for
\* every ordered pair of distinct slots
OverlapsOf(S) ==
    [p \in { q \in S \X S : q[1] # q[2] } |-> OverlapMap[p]]

\* for every slot, the slots that share a cell with it
NeighborMap ==
    [var \in AllSlots |->
        { v \in AllSlots : v # var /\ SharedCell(v, var) # None }]

\* crossword.neighbors(var): the slots of the structure that overlap var
neighbors(S, var) == NeighborMap[var] \cap S

\* the words a word list is drawn from
Vocabulary ==
    { <<"a","b">>, <<"a","a","a","a">>, <<"a","a","a","b">>,
      <<"a","b","b","a">>, <<"b","a","b","b">> }

WordLists == { W \in SUBSET Vocabulary : Cardinality(W) <= MaxWords }

\* the word list of the scenario
ScenarioWords == { <<"c","a","t">>, <<"c","a","r">> }

\* the structures and word lists the program is run on
Inputs == (Structures \X WordLists) \cup { <<Scenario, ScenarioWords>> }

\* word[k], k counted from 0 as in Python
Char(word, k) == word[k + 1]

---------------------------------------------------------------------------
(* Iteration orders.                                                       *)

\* every order in which a set can be iterated
RECURSIVE Orders(_)
Orders(S) ==
    IF S = {} THEN { <<>> }
    ELSE UNION { { <<x>> \o p : p \in Orders(S \ {x}) } : x \in S }

\* [(x, y) for y in neighbors(x)] in every neighbor order
ArcsFrom(S, x) ==
    { [k \in 1..Len(p) |-> <<x, p[k]>>] : p \in Orders(neighbors(S, x)) }

\* the forward check is seeded with the arcs (var, n) out of the chosen
\* slot in place of the arcs (n, var) into it
ArcsInto_reversed(S, var) ==
    { [k \in 1..Len(p) |-> <<var, p[k]>>] : p \in Orders(neighbors(S, var)) }

\* [(n, var) for n in neighbors(var)] in every neighbor order
ArcsInto(S, var) ==
    { [k \in 1..Len(p) |-> <<p[k], var>>] : p \in Orders(neighbors(S, var)) }

RECURSIVE ConcatArcs(_, _, _)
ConcatArcs(S, vs, k) ==
    IF k > Len(vs) THEN { <<>> }
    ELSE { a \o rest : a \in ArcsFrom(S, vs[k]), rest \in ConcatArcs(S, vs, k + 1) }

\* [(x, y) for x in variables for y in neighbors(x)] in every iteration order
AllArcs(S) == UNION { ConcatArcs(S, vs, 1) : vs \in Orders(S) }

---------------------------------------------------------------------------
(* The engine's methods, as functions of the domains they read.            *)

\* the slots of the structure in use
Slots == crossword.variables

\* crossword.overlaps[x, y] is a KeyError: the map has no entry for (x, y)
missing(x, y) == <<x, y>> \notin DOMAIN crossword.overlaps

\* crossword.overlaps[x, y]
overlaps(x, y) == crossword.overlaps[<<x, y>>]

\* __init__: every slot starts with a copy of the whole word list
InitialDomains(S, W) == [v \in S |-> W]

\* enforce_node_consistency with `<` for `!=`: only the words that are too
\* short are removed
enforce_node_consistency_shorter_only(dom) ==
    [v \in DOMAIN dom |-> dom[v] \ { word \in dom[v] : Len(word) < v.length }]

\* enforce_node_consistency on domains that are one shared set (no .copy()
\* in __init__): a word removed for one slot is gone for every slot
enforce_node_consistency_shared(dom) ==
    [v \in DOMAIN dom |->
        dom[v] \ { word \in dom[v] :
                     \E u \in DOMAIN dom : Len(word) # u.length }]

\* enforce_node_consistency: remove every word of the wrong length
enforce_node_consistency(dom) ==
    [v \in DOMAIN dom |-> dom[v] \ { word \in dom[v] : Len(word) # v.length }]

\* word[k] is an IndexError
Short(word, k) == Len(word) <= k

\* x_word[i] == y_word[j], for indices in range
Agree(x_word, i, y_word, j) ==
    /\ ~Short(x_word, i)
    /\ ~Short(y_word, j)
    /\ Char(x_word, i) = Char(y_word, j)

\* revise can end in an IndexError: some x_word[i] or y_word[j] is evaluated
\* out of range (for y_word under some iteration order of domains[y])
revise_IndexError(dom, x, y) ==
    /\ ~missing(x, y)
    /\ overlaps(x, y) # None
    /\ dom[x] # {}
    /\ dom[y] # {}
    /\ \/ \E x_word \in dom[x] : Short(x_word, overlaps(x, y)[1])
       \/ \E y_word \in dom[y] : Short(y_word, overlaps(x, y)[2])

\* revise can raise: the KeyError of the lookup, or an IndexError
revise_raises(dom, x, y) ==
    missing(x, y) \/ revise_IndexError(dom, x, y)

\* revise can return: the lookup succeeds, no x_word[i] is out of range, and
\* every x_word finds a match before any() reaches an out-of-range y_word[j]
revise_returns(dom, x, y) ==
    /\ ~missing(x, y)
    /\ \/ overlaps(x, y) = None
       \/ dom[x] = {}
       \/ dom[y] = {}
       \/ /\ \A x_word \in dom[x] : ~Short(x_word, overlaps(x, y)[1])
          /\ \/ \A y_word \in dom[y] : ~Short(y_word, overlaps(x, y)[2])
             \/ \A x_word \in dom[x] : \E y_word \in dom[y] :
                   Agree(x_word, overlaps(x, y)[1], y_word, overlaps(x, y)[2])

\* to_remove with the overlap indices swapped: x_word[j] == y_word[i]
to_remove_swapped(dom, x, y) ==
    { x_word \in dom[x] :
        ~ \E y_word \in dom[y] :
            Agree(x_word, overlaps(x, y)[2], y_word, overlaps(x, y)[1]) }

\* to_remove with all() for any(): a word stays only if every y_word agrees
to_remove_all_must_agree(dom, x, y) ==
    { x_word \in dom[x] :
        ~ \A y_word \in dom[y] :
            Agree(x_word, overlaps(x, y)[1], y_word, overlaps(x, y)[2]) }

\* the to_remove set of revise
to_remove(dom, x, y) ==
    { x_word \in dom[x] :
        ~ \E y_word \in dom[y] :
            Agree(x_word, overlaps(x, y)[1], y_word, overlaps(x, y)[2]) }

\* revise that rebuilds domains[x] from the word list instead of removing
\* from it: self.domains[x] = self.crossword.words - to_remove
revise_from_words(dom, x, y) ==
    IF overlaps(x, y) = None
    THEN [domains |-> dom, revised |-> FALSE]
    ELSE IF to_remove(dom, x, y) # {}
    THEN [domains |-> [dom EXCEPT ![x] = crossword.words \ to_remove(dom, x, y)],
          revised |-> TRUE]
    ELSE [domains |-> dom, revised |-> FALSE]

\* revise that prunes both ends of the arc: domains[y] loses the words
\* without a match in domains[x] as well
revise_both_ends(dom, x, y) ==
    IF overlaps(x, y) = None
    THEN [domains |-> dom, revised |-> FALSE]
    ELSE IF to_remove(dom, x, y) # {}
    THEN [domains |-> [dom EXCEPT ![x] = dom[x] \ to_remove(dom, x, y),
                                  ![y] = dom[y] \ to_remove(dom, y, x)],
          revised |-> TRUE]
    ELSE [domains |-> dom, revised |-> FALSE]

\* revise(x, y): the domains it leaves and the value it returns
revise(dom, x, y) ==
    IF overlaps(x, y) = None
    THEN [domains |-> dom, revised |-> FALSE]
    ELSE IF to_remove(dom, x, y) # {}
    THEN [domains |-> [dom EXCEPT ![x] = dom[x] \ to_remove(dom, x, y)],
          revised |-> TRUE]
    ELSE [domains |-> dom, revised |-> FALSE]

\* assignment_complete with `<=` for `==`: any partial assignment is complete
assignment_complete_subset(assignment) ==
    /\ DOMAIN assignment \subseteq Slots
    /\ \A v \in DOMAIN assignment : assignment[v] # None

\* assignment_complete that also asks for a non-empty assignment
assignment_complete_nonempty(assignment) ==
    /\ DOMAIN assignment # {}
    /\ DOMAIN assignment = Slots
    /\ \A v \in DOMAIN assignment : assignment[v] # None

\* assignment_complete
assignment_complete(assignment) ==
    /\ DOMAIN assignment = Slots
    /\ \A v \in DOMAIN assignment : assignment[v] # None

\* distinctness checked between neighboring slots only
distinct_values_neighbors_only(assignment) ==
    \A u, v \in DOMAIN assignment :
        (u # v /\ v \in neighbors(Slots, u)) => assignment[u] # assignment[v]

\* the distinctness check is left out
distinct_values_skipped(assignment) == TRUE

\* the values of an assignment are pairwise distinct
\* (len(values) == len(set(values)))
distinct_values(assignment) ==
    \A u, v \in DOMAIN assignment : u # v => assignment[u] # assignment[v]

\* the pairs (var, neighbor) whose overlap consistent looks up when it
\* reaches var first: var's word has var's length and neighbor is assigned
checked_pairs(assignment) ==
    { p \in (DOMAIN assignment) \X (DOMAIN assignment) :
        /\ Len(assignment[p[1]]) = p[1].length
        /\ p[2] \in neighbors(Slots, p[1]) }

\* consistent can end in a KeyError: the overlap map has no entry for a pair
\* of assigned neighbors
consistent_KeyError(assignment) ==
    /\ distinct_values(assignment)
    /\ \E p \in checked_pairs(assignment) : missing(p[1], p[2])

\* consistent can end in an IndexError: a neighbor's word is indexed before
\* its own length was checked
consistent_IndexError(assignment) ==
    /\ distinct_values(assignment)
    /\ \E p \in checked_pairs(assignment) :
          /\ ~missing(p[1], p[2])
          /\ overlaps(p[1], p[2]) # None
          /\ Short(assignment[p[2]], overlaps(p[1], p[2])[2])

\* consistent can raise, for some order of the items of the assignment
consistent_raises(assignment) ==
    consistent_KeyError(assignment) \/ consistent_IndexError(assignment)

\* consistent can return False, for some order of the items of the
\* assignment: a repeated word, a word of the wrong length, or a pair of
\* assigned neighbors that differ at their overlap
consistent_rejects(assignment) ==
    \/ ~distinct_values(assignment)
    \/ \E var \in DOMAIN assignment : Len(assignment[var]) # var.length
    \/ \E p \in checked_pairs(assignment) :
          /\ ~missing(p[1], p[2])
          /\ overlaps(p[1], p[2]) # None
          /\ ~Short(assignment[p[2]], overlaps(p[1], p[2])[2])
          /\ Char(assignment[p[1]], overlaps(p[1], p[2])[1])
                # Char(assignment[p[2]], overlaps(p[1], p[2])[2])

\* consistent without the test len(word) != var.length
consistent_ignores_length(assignment) ==
    /\ distinct_values(assignment)
    /\ \A var \in DOMAIN assignment :
          \A neighbor \in neighbors(Slots, var) \cap DOMAIN assignment :
                /\ ~missing(var, neighbor)
                /\ \/ overlaps(var, neighbor) = None
                   \/ Agree(assignment[var], overlaps(var, neighbor)[1],
                            assignment[neighbor], overlaps(var, neighbor)[2])

\* consistent(assignment) returns True
consistent(assignment) ==
    /\ distinct_values(assignment)
    /\ \A var \in DOMAIN assignment :
          /\ Len(assignment[var]) = var.length
          /\ \A neighbor \in neighbors(Slots, var) \cap DOMAIN assignment :
                /\ ~missing(var, neighbor)
                /\ \/ overlaps(var, neighbor) = None
                   \/ Agree(assignment[var], overlaps(var, neighbor)[1],
                            assignment[neighbor], overlaps(var, neighbor)[2])

\* the test `if n in assignment: continue` is left out: assigned neighbors
\* are counted over as well
counted_neighbors_assigned_too(var, assignment) ==
    { n \in neighbors(Slots, var) :
        /\ ~missing(var, n)
        /\ overlaps(var, n) # None }

\* the neighbors of var that order_domain_values counts over
counted_neighbors(var, assignment) ==
    { n \in neighbors(Slots, var) :
        /\ n \notin DOMAIN assignment
        /\ ~missing(var, n)
        /\ overlaps(var, n) # None }

RECURSIVE SumOver(_, _)
SumOver(f, S) ==
    IF S = {} THEN 0
    ELSE LET x == CHOOSE x \in S : TRUE IN f[x] + SumOver(f, S \ {x})

\* conflicts(word) of order_domain_values
conflicts(dom, var, assignment, word) ==
    SumOver([n \in counted_neighbors(var, assignment) |->
                Cardinality({ n_word \in dom[n] :
                    ~Agree(word, overlaps(var, n)[1], n_word, overlaps(var, n)[2]) })],
            counted_neighbors(var, assignment))

\* order_domain_values ends in a KeyError: conflicts is called (the domain
\* has a word) and the overlap map has no entry for an unassigned neighbor
order_domain_values_KeyError(dom, var, assignment) ==
    /\ dom[var] # {}
    /\ \E n \in neighbors(Slots, var) :
          n \notin DOMAIN assignment /\ missing(var, n)

\* order_domain_values ends in an IndexError: some word[i] or n_word[j] is
\* out of range (every pair is evaluated)
order_domain_values_IndexError(dom, var, assignment) ==
    \E n \in counted_neighbors(var, assignment) :
        /\ dom[var] # {}
        /\ dom[n] # {}
        /\ \/ \E word \in dom[var] : Short(word, overlaps(var, n)[1])
           \/ \E n_word \in dom[n] : Short(n_word, overlaps(var, n)[2])

\* order_domain_values raises
order_domain_values_raises(dom, var, assignment) ==
    \/ order_domain_values_KeyError(dom, var, assignment)
    \/ order_domain_values_IndexError(dom, var, assignment)

\* order_domain_values(var, assignment): sorted() is stable, so the words come
\* in any order of the domain that is non-decreasing in conflicts
order_domain_values(dom, var, assignment) ==
    { p \in Orders(dom[var]) :
        \A a, b \in 1..Len(p) :
            a < b => conflicts(dom, var, assignment, p[a])
                        <= conflicts(dom, var, assignment, p[b]) }

\* the unassigned list of select_unassigned_variable
unassigned(assignment) == { v \in Slots : v \notin DOMAIN assignment }

\* mrv_candidates with max() for min(): the slots with the most values left
mrv_candidates_largest(dom, assignment) ==
    { v \in unassigned(assignment) :
        \A u \in unassigned(assignment) :
            Cardinality(dom[u]) <= Cardinality(dom[v]) }

\* mrv_candidates of select_unassigned_variable
mrv_candidates(dom, assignment) ==
    { v \in unassigned(assignment) :
        \A u \in unassigned(assignment) :
            Cardinality(dom[v]) <= Cardinality(dom[u]) }

\* select_unassigned_variable(assignment): max() returns the first maximal
\* candidate in iteration order, which can be any candidate of maximal degree
select_unassigned_variable(dom, assignment) ==
    { v \in mrv_candidates(dom, assignment) :
        \A u \in mrv_candidates(dom, assignment) :
            Cardinality(neighbors(Slots, u)) <= Cardinality(neighbors(Slots, v)) }

\* new_assignment[var] = value is left out: the copy is passed on as it is
extend_nothing(assignment, var, value) == assignment

\* new_assignment = assignment.copy(); new_assignment[var] = value
extend(assignment, var, value) ==
    [v \in DOMAIN assignment \cup {var} |->
        IF v = var THEN value ELSE assignment[v]]

\* dict()
EmptyAssignment == [v \in {} |-> None]

---------------------------------------------------------------------------
(* The program: main() builds the engine and calls solve().                *)

\* one active backtrack call: its argument, the slot it selected, the
\* candidates still to try, the candidate being tried, and the snapshot taken
\* for it; entry_domains records the domains the call was entered with
Frame(assignment, var, values, dom) ==
    [assignment |-> assignment, var |-> var, values |-> values,
     value |-> None, new_assignment |-> assignment,
     saved_domains |-> dom, entry_domains |-> dom]

Top == stack[Len(stack)]

Pop == SubSeq(stack, 1, Len(stack) - 1)

\* the state after CrosswordCreator(crossword), before solve()
Constructed(S, W) ==
    /\ crossword = [variables |-> S, words |-> W, overlaps |-> OverlapsOf(S)]
    /\ domains = InitialDomains(S, W)
    /\ pc = "solve"
    /\ ctx = "pre"
    /\ full = TRUE
    /\ queue = <<>>
    /\ ac3_ok = TRUE
    /\ ac3_entry = InitialDomains(S, W)
    /\ stack = <<>>
    /\ arg = EmptyAssignment
    /\ retval = None
    /\ result = None
    /\ op = "init"

Init ==
    /\ \E input \in Inputs : Constructed(input[1], input[2])
    /\ rerun = FALSE
    /\ first = None
    /\ call = None

\* solve, line 92: self.enforce_node_consistency()
EnforceNodeConsistency ==
    /\ pc = "solve"
    /\ domains' = enforce_node_consistency(domains)
    /\ pc' = "ac3_call"
    /\ op' = "enforce_node_consistency"
    /\ UNCHANGED <<crossword, ctx, full, queue, ac3_ok, ac3_entry, stack, arg,
                   retval, result, rerun, first, call>>

\* ac3 with arcs=None, lines 144-146: the worklist holds every arc
Ac3Start ==
    /\ pc = "ac3_call"
    /\ \E q \in AllArcs(Slots) : queue' = q
    /\ ac3_entry' = domains
    /\ pc' = "ac3"
    /\ op' = "ac3_start"
    /\ UNCHANGED <<crossword, domains, ctx, full, ac3_ok, stack, arg, retval,
                   result, rerun, first, call>>

\* nothing is appended after revise(x, y) removed a word
Requeued_nothing(x, y) == { <<>> }

\* the arcs (z, x) are appended for every neighbor z of x, y included
Requeued_with_y(x, y) ==
    { [k \in 1..Len(p) |-> <<p[k], x>>] : p \in Orders(neighbors(Slots, x)) }

\* the arcs (z, x) appended after revise(x, y) removed a word, in every order
Requeued(x, y) ==
    { [k \in 1..Len(p) |-> <<p[k], x>>] :
        p \in Orders(neighbors(Slots, x) \ {y}) }

\* the test len(self.domains[x]) == 0 is left out: ac3 goes on after a
\* revise that emptied domain(x)
Ac3Outcomes_never_fails(x, y) ==
    (IF revise_raises(domains, x, y) THEN {"raise"} ELSE {})
    \cup
    (IF ~revise_returns(domains, x, y) THEN {}
     ELSE IF ~revise(domains, x, y).revised THEN {"unchanged"}
     ELSE {"revised"})

\* what one pass of the while loop of ac3 can do with the arc (x, y):
\* raise, return False, or go on with a longer or shorter worklist
Ac3Outcomes(x, y) ==
    (IF revise_raises(domains, x, y) THEN {"raise"} ELSE {})
    \cup
    (IF ~revise_returns(domains, x, y) THEN {}
     ELSE IF ~revise(domains, x, y).revised THEN {"unchanged"}
     ELSE IF revise(domains, x, y).domains[x] = {} THEN {"emptied"}
     ELSE {"revised"})

\* one pass of the while loop with queue[0] for queue.pop(0): the arc stays
\* at the front of the worklist
Ac3Revise_without_pop ==
    /\ pc = "ac3"
    /\ queue # <<>>
    /\ LET x == Head(queue)[1]
           y == Head(queue)[2]
       IN \E outcome \in Ac3Outcomes(x, y) :
            /\ op' = IF outcome = "raise" THEN "IndexError" ELSE outcome
            /\ pc' = CASE outcome = "raise" -> "raised"
                       [] outcome = "emptied" -> "ac3_returned"
                       [] OTHER -> "ac3"
            /\ domains' = IF outcome = "raise" THEN domains
                          ELSE revise(domains, x, y).domains
            /\ ac3_ok' = IF outcome = "emptied" THEN FALSE ELSE ac3_ok
            /\ IF outcome = "revised"
               THEN \E zs \in Requeued(x, y) : queue' = queue \o zs
               ELSE queue' = queue
    /\ UNCHANGED <<crossword, ctx, full, ac3_entry, stack, arg, retval, result,
                   rerun, first, call>>

\* ac3, lines 150-156: one pass of the while loop
Ac3Revise ==
    /\ pc = "ac3"
    /\ queue # <<>>
    /\ LET x == Head(queue)[1]
           y == Head(queue)[2]
       IN \E outcome \in Ac3Outcomes(x, y) :
            /\ op' = IF outcome = "raise" THEN "IndexError" ELSE outcome
            /\ pc' = CASE outcome = "raise" -> "raised"
                       [] outcome = "emptied" -> "ac3_returned"
                       [] OTHER -> "ac3"
            /\ domains' = IF outcome = "raise" THEN domains
                          ELSE revise(domains, x, y).domains
            /\ ac3_ok' = IF outcome = "emptied" THEN FALSE ELSE ac3_ok
            /\ IF outcome = "revised"
               THEN \E zs \in Requeued(x, y) : queue' = Tail(queue) \o zs
               ELSE queue' = Tail(queue)
    /\ UNCHANGED <<crossword, ctx, full, ac3_entry, stack, arg, retval, result,
                   rerun, first, call>>

\* ac3, line 157: the worklist is empty
Ac3ReturnTrue ==
    /\ pc = "ac3"
    /\ queue = <<>>
    /\ ac3_ok' = TRUE
    /\ pc' = "ac3_returned"
    /\ op' = "ac3_true"
    /\ UNCHANGED <<crossword, domains, ctx, full, queue, ac3_entry, stack, arg,
                   retval, result, rerun, first, call>>

\* solve, line 94: the value of ac3() is dropped and backtrack(dict()) called
SolveBacktrack ==
    /\ pc = "ac3_returned"
    /\ ctx = "pre"
    /\ arg' = EmptyAssignment
    /\ queue' = <<>>
    /\ pc' = "backtrack"
    /\ op' = "call_backtrack"
    /\ UNCHANGED <<crossword, domains, ctx, full, ac3_ok, ac3_entry,
                   stack, retval, result, rerun, first, call>>

\* how a backtrack call can begin: return the complete assignment, raise in
\* min() of select_unassigned_variable (no unassigned slot) or in
\* order_domain_values, or enter the loop over the ordered values
BacktrackOutcomes ==
    IF assignment_complete(arg) THEN {"complete"}
    ELSE IF unassigned(arg) = {} THEN {"ValueError"}
    ELSE {"loop"}

\* backtrack, lines 235-241: the base case, the selected slot and its values
BacktrackEnter ==
    /\ pc = "backtrack"
    /\ \E outcome \in BacktrackOutcomes :
        CASE outcome = "complete" ->
                /\ retval' = Some(arg)
                /\ pc' = "return"
                /\ op' = "return_assignment"
                /\ stack' = stack
          [] outcome = "ValueError" ->
                /\ retval' = retval
                /\ pc' = "raised"
                /\ op' = "ValueError"
                /\ stack' = stack
          [] OTHER ->
                \E var \in select_unassigned_variable(domains, arg) :
                    IF order_domain_values_raises(domains, var, arg)
                    THEN /\ retval' = retval
                         /\ pc' = "raised"
                         /\ op' = "IndexError"
                         /\ stack' = stack
                    ELSE \E values \in order_domain_values(domains, var, arg) :
                         /\ retval' = retval
                         /\ pc' = "loop"
                         /\ op' = "select"
                         /\ stack' = Append(stack, Frame(arg, var, values, domains))
    /\ UNCHANGED <<crossword, domains, ctx, full, queue, ac3_ok, ac3_entry,
                   arg, result, rerun, first, call>>

\* backtrack, line 263: every value was tried
BacktrackReturnNone ==
    /\ pc = "loop"
    /\ Top.values = <<>>
    /\ stack' = Pop
    /\ retval' = None
    /\ pc' = "return"
    /\ op' = "return_none"
    /\ UNCHANGED <<crossword, domains, ctx, full, queue, ac3_ok, ac3_entry,
                   arg, result, rerun, first, call>>

\* what the consistency check of the next candidate can do
CandidateOutcomes ==
    LET new_assignment == extend(Top.assignment, Top.var, Head(Top.values))
    IN (IF consistent_raises(new_assignment) THEN {"raise"} ELSE {})
       \cup
       (IF consistent_rejects(new_assignment) THEN {"inconsistent"} ELSE {})
       \cup
       (IF consistent(new_assignment) THEN {"consistent"} ELSE {})

\* backtrack, lines 241-246: the next value fails the consistency check
\* (or the check raises)
CandidateRejected ==
    /\ pc = "loop"
    /\ Top.values # <<>>
    /\ \E outcome \in CandidateOutcomes \ {"consistent"} :
        /\ pc' = IF outcome = "raise" THEN "raised" ELSE "loop"
        /\ op' = IF outcome = "raise" THEN "IndexError" ELSE "continue"
    /\ stack' = [stack EXCEPT ![Len(stack)].values = Tail(Top.values)]
    /\ UNCHANGED <<crossword, domains, ctx, full, queue, ac3_ok, ac3_entry,
                   arg, retval, result, rerun, first, call>>

\* the assignment self.domains[var] = {value} is left out
collapse_skipped(dom, var, value) == dom

\* the domains after self.domains[var] = {value}
collapse(dom, var, value) == [dom EXCEPT ![var] = {value}]

\* new_assignment = assignment with no copy: the tentative pair is written
\* into the assignment the call was given
tentative_in_place(frame, value) ==
    [frame EXCEPT !.value = value,
                  !.assignment = extend(frame.assignment, frame.var, value),
                  !.new_assignment = extend(frame.assignment, frame.var, value)]

\* the call's locals after new_assignment = assignment.copy() and
\* new_assignment[var] = value
tentative(frame, value) ==
    [frame EXCEPT !.value = value,
                  !.new_assignment = extend(frame.assignment, frame.var, value)]

\* backtrack, lines 241-255: the next value passes the check; the domains
\* are saved, var's domain becomes {value}, and ac3 is called with the arcs
\* (n, var) (ac3, line 148: queue = list(arcs))
CandidateTried ==
    /\ pc = "loop"
    /\ Top.values # <<>>
    /\ "consistent" \in CandidateOutcomes
    /\ LET value == Head(Top.values)
       IN /\ stack' = [stack EXCEPT ![Len(stack)] =
                          [tentative(Top, value) EXCEPT
                               !.values = Tail(Top.values),
                               !.saved_domains = domains]]
          /\ domains' = collapse(domains, Top.var, value)
          /\ ac3_entry' = collapse(domains, Top.var, value)
    /\ \E q \in ArcsInto(Slots, Top.var) : queue' = q
    /\ ctx' = "fwd"
    /\ full' = FALSE
    /\ pc' = "ac3"
    /\ op' = "collapse"
    /\ UNCHANGED <<crossword, ac3_ok, arg, retval, result, rerun, first, call>>

\* backtrack, lines 255-256: the forward check succeeded, recurse
Recurse ==
    /\ pc = "ac3_returned"
    /\ ctx = "fwd"
    /\ ac3_ok
    /\ arg' = Top.new_assignment
    /\ queue' = <<>>
    /\ pc' = "backtrack"
    /\ op' = "call_backtrack"
    /\ UNCHANGED <<crossword, domains, ctx, full, ac3_ok, ac3_entry,
                   stack, retval, result, rerun, first, call>>

\* the restore is left out: the domains stay as the failed candidate left them
restore_skipped(frame) == domains

\* the domains after self.domains = saved_domains
restore(frame) == frame.saved_domains

\* backtrack, lines 255 and 261: the forward check failed, restore
ForwardCheckFailed ==
    /\ pc = "ac3_returned"
    /\ ctx = "fwd"
    /\ ~ac3_ok
    /\ domains' = restore(Top)
    /\ queue' = <<>>
    /\ pc' = "loop"
    /\ op' = "restore"
    /\ UNCHANGED <<crossword, ctx, full, ac3_ok, ac3_entry, stack, arg,
                   retval, result, rerun, first, call>>

\* backtrack, lines 256-258: the recursive call found an assignment
PropagateResult ==
    /\ pc = "return"
    /\ stack # <<>>
    /\ retval # None
    /\ stack' = Pop
    /\ op' = "return_assignment"
    /\ UNCHANGED <<crossword, domains, pc, ctx, full, queue, ac3_ok, ac3_entry,
                   arg, retval, result, rerun, first, call>>

\* backtrack, lines 256-261: the recursive call returned None, restore
RecursionFailed ==
    /\ pc = "return"
    /\ stack # <<>>
    /\ retval = None
    /\ domains' = restore(Top)
    /\ pc' = "loop"
    /\ op' = "restore"
    /\ UNCHANGED <<crossword, ctx, full, queue, ac3_ok, ac3_entry, stack, arg,
                   retval, result, rerun, first, call>>

\* solve, line 94: the outermost backtrack call returned
SolveReturn ==
    /\ pc = "return"
    /\ stack = <<>>
    /\ result' = retval
    /\ pc' = "done"
    /\ op' = "solve_return"
    /\ UNCHANGED <<crossword, domains, ctx, full, queue, ac3_ok, ac3_entry,
                   stack, arg, retval, rerun, first, call>>

\* main() is run a second time on the same structure and word list
Rerun ==
    /\ pc = "done"
    /\ ~rerun
    /\ rerun' = TRUE
    /\ first' = result
    /\ crossword' = crossword
    /\ domains' = InitialDomains(Slots, crossword.words)
    /\ pc' = "solve"
    /\ ctx' = "pre"
    /\ full' = TRUE
    /\ queue' = <<>>
    /\ ac3_ok' = TRUE
    /\ ac3_entry' = InitialDomains(Slots, crossword.words)
    /\ stack' = <<>>
    /\ arg' = EmptyAssignment
    /\ retval' = None
    /\ result' = None
    /\ op' = "init"
    /\ call' = call

\* one step of solve()
Step ==
    \/ EnforceNodeConsistency
    \/ Ac3Start
    \/ Ac3Revise
    \/ Ac3ReturnTrue
    \/ SolveBacktrack
    \/ BacktrackEnter
    \/ BacktrackReturnNone
    \/ CandidateRejected
    \/ CandidateTried
    \/ Recurse
    \/ ForwardCheckFailed
    \/ PropagateResult
    \/ RecursionFailed
    \/ SolveReturn

Next == Step

\* one run of the program
Spec == Init /\ [][Next]_vars

\* the inputs of the runs followed to their end: every structure of up to
\* three slots on every word list, and the ring of four slots on the lists
\* of MaxWords words that all have the length of its slots
RunInputs ==
    { input \in Inputs :
        \/ Cardinality(input[1]) <= 3
        \/ /\ Cardinality(input[2]) = MaxWords
           /\ \A word \in input[2] : Len(word) = 4 }

InitRun ==
    /\ \E input \in RunInputs : Constructed(input[1], input[2])
    /\ rerun = FALSE
    /\ first = None
    /\ call = None

\* one run of the program that is not suspended: the interpreter goes on
\* to the next statement while there is one
SpecRun == InitRun /\ [][Next]_vars /\ WF_vars(Next)

NextTwice == Step \/ Rerun

\* two runs of the program on the same input
SpecTwice == Init /\ [][NextTwice]_vars

---------------------------------------------------------------------------
(* ac3() called directly, with arcs=None, on any domains the engine can    *)
(* hold: for each slot any set of words of the slot's length.  ac3 does    *)
(* not read the word list, so it is taken to be the words in use.          *)

\* the structures ac3 is called on directly
Ac3Structures == { S \in Structures : Cardinality(S) <= 3 }

InitAc3 ==
    /\ \E S \in Ac3Structures : \E W \in WordLists :
        /\ crossword = [variables |-> S, words |-> W, overlaps |-> OverlapsOf(S)]
        /\ domains \in [S -> SUBSET W]
        /\ domains = enforce_node_consistency(domains)
        /\ W = UNION { domains[v] : v \in S }
    /\ ac3_entry = domains
    /\ pc = "ac3_call"
    /\ ctx = "call"
    /\ full = TRUE
    /\ queue = <<>>
    /\ ac3_ok = TRUE
    /\ stack = <<>>
    /\ arg = EmptyAssignment
    /\ retval = None
    /\ result = None
    /\ op = "init"
    /\ rerun = FALSE
    /\ first = None
    /\ call = None

NextAc3 == Ac3Start \/ Ac3Revise \/ Ac3ReturnTrue

SpecAc3 == InitAc3 /\ [][NextAc3]_vars

---------------------------------------------------------------------------
(* ac3() called directly on the engine after enforce_node_consistency,     *)
(* with arcs=None or with a list of arcs chosen by the caller.  The steps  *)
(* of the call are taken one after the other, without pause, so a step     *)
(* that can be taken is taken.                                             *)

\* the lists of at most MaxArcs ordered pairs of distinct slots
ArcLists(S) ==
    UNION { [1..n -> { a \in S \X S : a[1] # a[2] }] : n \in 0..MaxArcs }

\* ac3 with arcs given, line 148: queue = list(arcs)
Ac3StartArcs ==
    /\ pc = "ac3_call"
    /\ ctx = "call"
    /\ \E q \in ArcLists(Slots) : queue' = q
    /\ full' = FALSE
    /\ ac3_entry' = domains
    /\ pc' = "ac3"
    /\ op' = "ac3_start"
    /\ UNCHANGED <<crossword, domains, ctx, ac3_ok, stack, arg, retval,
                   result, rerun, first, call>>

InitAc3Arcs ==
    /\ \E S \in Ac3Structures : \E W \in WordLists :
        /\ crossword = [variables |-> S, words |-> W, overlaps |-> OverlapsOf(S)]
        /\ domains = enforce_node_consistency(InitialDomains(S, W))
    /\ ac3_entry = domains
    /\ pc = "ac3_call"
    /\ ctx = "call"
    /\ full = TRUE
    /\ queue = <<>>
    /\ ac3_ok = TRUE
    /\ stack = <<>>
    /\ arg = EmptyAssignment
    /\ retval = None
    /\ result = None
    /\ op = "init"
    /\ rerun = FALSE
    /\ first = None
    /\ call = None

NextAc3Arcs == Ac3Start \/ Ac3StartArcs \/ Ac3Revise \/ Ac3ReturnTrue

SpecAc3Arcs == InitAc3Arcs /\ [][NextAc3Arcs]_vars /\ WF_vars(NextAc3Arcs)

---------------------------------------------------------------------------
(* ac3() under any queue discipline: a pass takes an arc from any place of *)
(* the worklist.  The call starts from any domains the engine can hold     *)
(* and any set of arcs between neighbors; `call` records the arcs and      *)
(* whether an arc other than the front one was ever taken.                 *)

\* the sets of arcs between neighbors
ArcSets(S) ==
    SUBSET { a \in S \X S : a[1] # a[2] /\ a[2] \in neighbors(S, a[1]) }

\* list(arcs) for a set of arcs
AsList(A) == CHOOSE q \in Orders(A) : TRUE

\* ac3, lines 144-148: the worklist holds the arcs of the chosen set
Ac3StartSet ==
    /\ pc = "ac3_call"
    /\ \E A \in ArcSets(Slots) :
        /\ queue' = AsList(A)
        /\ call' = <<"ac3", AsList(A), FALSE>>
        /\ full' = (\A B \in ArcSets(Slots) : B \subseteq A)
    /\ ac3_entry' = domains
    /\ pc' = "ac3"
    /\ op' = "ac3_start"
    /\ UNCHANGED <<crossword, domains, ctx, ac3_ok, stack, arg, retval,
                   result, rerun, first>>

\* the worklist without its k-th arc
Without_kth(q, k) == SubSeq(q, 1, k - 1) \o SubSeq(q, k + 1, Len(q))

\* ac3, lines 150-156, with queue.pop(k - 1) for queue.pop(0)
Ac3ReviseAny ==
    /\ pc = "ac3"
    /\ queue # <<>>
    /\ \E k \in 1..Len(queue) :
        LET x == queue[k][1]
            y == queue[k][2]
        IN /\ call' = <<call[1], call[2], call[3] \/ k > 1>>
           /\ \E outcome \in Ac3Outcomes(x, y) :
                /\ op' = IF outcome = "raise" THEN "IndexError" ELSE outcome
                /\ pc' = CASE outcome = "raise" -> "raised"
                           [] outcome = "emptied" -> "ac3_returned"
                           [] OTHER -> "ac3"
                /\ domains' = IF outcome = "raise" THEN domains
                              ELSE revise(domains, x, y).domains
                /\ ac3_ok' = IF outcome = "emptied" THEN FALSE ELSE ac3_ok
                /\ IF outcome = "revised"
                   THEN \E zs \in Requeued(x, y) :
                            queue' = Without_kth(queue, k) \o zs
                   ELSE queue' = Without_kth(queue, k)
    /\ UNCHANGED <<crossword, ctx, full, ac3_entry, stack, arg, retval, result,
                   rerun, first>>

\* the loop of ac3, lines 150-157, run on the worklist q in FIFO order from
\* the domains dom: the value returned and the domains left
RECURSIVE Ac3Fifo(_, _)
Ac3Fifo(dom, q) ==
    IF q = <<>> THEN [ok |-> TRUE, domains |-> dom]
    ELSE LET x == Head(q)[1]
             y == Head(q)[2]
         IN IF ~revise(dom, x, y).revised
            THEN Ac3Fifo(dom, Tail(q))
            ELSE IF revise(dom, x, y).domains[x] = {}
            THEN [ok |-> FALSE, domains |-> revise(dom, x, y).domains]
            ELSE Ac3Fifo(revise(dom, x, y).domains,
                         Tail(q) \o (CHOOSE zs \in Requeued(x, y) : TRUE))

NextAc3Any == Ac3StartSet \/ Ac3ReviseAny \/ Ac3ReturnTrue

SpecAc3Any == InitAc3 /\ [][NextAc3Any]_vars

---------------------------------------------------------------------------
(* revise, consistent and order_domain_values called directly.  The        *)
(* structure handed to the engine may lack the overlap entry of a pair of  *)
(* neighbors, or hold None for it.                                         *)

\* the unordered pairs of neighboring slots of a structure
NeighborPairs(S) ==
    { pair \in SUBSET S :
        \E x, y \in S : pair = {x, y} /\ y \in neighbors(S, x) }

\* the overlap map with the entries of one pair of slots set to None
WithNone(S, pair) ==
    [p \in DOMAIN OverlapsOf(S) |->
        IF {p[1], p[2]} = pair THEN None ELSE OverlapsOf(S)[p]]

\* the overlap map without the entries of one pair of slots
Without(S, pair) ==
    [p \in { q \in DOMAIN OverlapsOf(S) : {q[1], q[2]} # pair } |->
        OverlapsOf(S)[p]]

\* the overlap maps a structure can come with
OverlapVariants(S) ==
    { OverlapsOf(S) }
        \cup { WithNone(S, pair) : pair \in NeighborPairs(S) }
        \cup { Without(S, pair) : pair \in NeighborPairs(S) }

\* every dict from some of the slots to words of the word list
Assignments ==
    UNION { [D -> crossword.words] : D \in SUBSET Slots }

\* the engine after construction and enforce_node_consistency, before a
\* method is called on it
InitCalls ==
    /\ \E S \in Ac3Structures : \E W \in WordLists :
        /\ \E o \in OverlapVariants(S) :
              crossword = [variables |-> S, words |-> W, overlaps |-> o]
        /\ domains = enforce_node_consistency(InitialDomains(S, W))
    /\ ac3_entry = domains
    /\ pc = "call"
    /\ ctx = "call"
    /\ full = TRUE
    /\ queue = <<>>
    /\ ac3_ok = TRUE
    /\ stack = <<>>
    /\ arg = EmptyAssignment
    /\ retval = None
    /\ result = None
    /\ op = "init"
    /\ rerun = FALSE
    /\ first = None
    /\ call = None

\* how a call of revise(x, y) can end
ReviseOutcomes(x, y) ==
    (IF missing(x, y) THEN {"KeyError"} ELSE {})
    \cup (IF revise_IndexError(domains, x, y) THEN {"IndexError"} ELSE {})
    \cup (IF revise_returns(domains, x, y) THEN {"returned"} ELSE {})

\* revise(x, y), lines 113-137
CallRevise ==
    /\ pc = "call"
    /\ \E x, y \in Slots :
        /\ x # y
        /\ call' = <<"revise", x, y>>
        /\ \E outcome \in ReviseOutcomes(x, y) :
            IF outcome = "returned"
            THEN /\ domains' = revise(domains, x, y).domains
                 /\ retval' = Some(revise(domains, x, y).revised)
                 /\ pc' = "returned"
                 /\ op' = "revise"
            ELSE /\ domains' = domains
                 /\ retval' = retval
                 /\ pc' = "raised"
                 /\ op' = outcome
    /\ ac3_entry' = domains
    /\ UNCHANGED <<crossword, ctx, full, queue, ac3_ok, stack, arg, result,
                   rerun, first>>

\* how a call of consistent(assignment) can end
ConsistentOutcomes(assignment) ==
    (IF consistent_KeyError(assignment) THEN {"KeyError"} ELSE {})
    \cup (IF consistent_IndexError(assignment) THEN {"IndexError"} ELSE {})
    \cup (IF consistent_rejects(assignment) THEN {"False"} ELSE {})
    \cup (IF consistent(assignment) THEN {"True"} ELSE {})

\* consistent(assignment), lines 166-190
CallConsistent ==
    /\ pc = "call"
    /\ \E assignment \in Assignments :
        /\ call' = <<"consistent", assignment>>
        /\ \E outcome \in ConsistentOutcomes(assignment) :
            IF outcome \in {"True", "False"}
            THEN /\ retval' = Some(outcome = "True")
                 /\ pc' = "returned"
                 /\ op' = "consistent"
            ELSE /\ retval' = retval
                 /\ pc' = "raised"
                 /\ op' = outcome
    /\ ac3_entry' = domains
    /\ UNCHANGED <<crossword, domains, ctx, full, queue, ac3_ok, stack, arg,
                   result, rerun, first>>

\* how a call of order_domain_values(var, assignment) ends
OrderDomainValuesOutcome(var, assignment) ==
    IF order_domain_values_KeyError(domains, var, assignment) THEN "KeyError"
    ELSE IF order_domain_values_IndexError(domains, var, assignment)
    THEN "IndexError"
    ELSE "returned"

\* order_domain_values(var, assignment), lines 192-212
CallOrderDomainValues ==
    /\ pc = "call"
    /\ \E var \in Slots : \E assignment \in Assignments :
        /\ var \notin DOMAIN assignment
        /\ call' = <<"order_domain_values", var, assignment>>
        /\ IF OrderDomainValuesOutcome(var, assignment) = "returned"
           THEN /\ \E values \in order_domain_values(domains, var, assignment) :
                      retval' = Some(values)
                /\ pc' = "returned"
                /\ op' = "order_domain_values"
           ELSE /\ retval' = retval
                /\ pc' = "raised"
                /\ op' = OrderDomainValuesOutcome(var, assignment)
    /\ ac3_entry' = domains
    /\ UNCHANGED <<crossword, domains, ctx, full, queue, ac3_ok, stack, arg,
                   result, rerun, first>>

NextCalls == CallRevise \/ CallConsistent \/ CallOrderDomainValues

\* one direct call of a method of the engine
SpecCalls == InitCalls /\ [][NextCalls]_vars

\* revise called on any domains the engine can hold
InitRevise ==
    /\ \E S \in Ac3Structures : \E W \in WordLists :
        /\ crossword = [variables |-> S, words |-> W, overlaps |-> OverlapsOf(S)]
        /\ domains \in [S -> SUBSET W]
        /\ domains = enforce_node_consistency(domains)
        /\ W = UNION { domains[v] : v \in S }
    /\ ac3_entry = domains
    /\ pc = "call"
    /\ ctx = "call"
    /\ full = TRUE
    /\ queue = <<>>
    /\ ac3_ok = TRUE
    /\ stack = <<>>
    /\ arg = EmptyAssignment
    /\ retval = None
    /\ result = None
    /\ op = "init"
    /\ rerun = FALSE
    /\ first = None
    /\ call = None

NextRevise == CallRevise

\* one direct call of revise
SpecRevise == InitRevise /\ [][NextRevise]_vars

---------------------------------------------------------------------------
(* Properties.                                                             *)

\* a value returned by backtrack or solve is an assignment, not None
IsAssignment(r) == r # None

\* the four conditions on a complete assignment: it covers every slot, its
\* words are pairwise distinct, each has its slot's length, and overlapping
\* slots agree at their overlap positions
Valid(a) ==
    /\ DOMAIN a = Slots
    /\ \A u, v \in Slots : u # v => a[u] # a[v]
    /\ \A v \in Slots : Len(a[v]) = v.length
    /\ \A x, y \in Slots :
        (x # y /\ SharedCell(x, y) # None) =>
            a[x][SharedCell(x, y)[1] + 1] = a[y][SharedCell(x, y)[2] + 1]

\* every complete assignment over the word list that meets the constraints
Solutions == { a \in [Slots -> crossword.words] : Valid(a) }

\* C1: an assignment returned by solve() covers every slot, uses pairwise
\* distinct words of the slots' lengths, and agrees at every overlap
C1_SolutionValid ==
    (pc = "done" /\ IsAssignment(result)) => Valid(result[1])

\* solve() returned an assignment of a structure of three slots
C1_Witness ==
    /\ pc = "done"
    /\ IsAssignment(result)
    /\ Cardinality(Slots) = 3

\* C2: when a solution exists solve() returns an assignment, and when
\* exactly one exists solve() returns that one
C2_FindsSolution ==
    pc = "done" =>
        /\ Solutions # {} => IsAssignment(result)
        /\ Cardinality(Solutions) = 1 =>
              (IsAssignment(result) /\ result[1] \in Solutions)

\* solve() returned the only solution of a structure of three slots
C2_Witness ==
    /\ pc = "done"
    /\ Cardinality(Slots) = 3
    /\ Cardinality(Solutions) = 1
    /\ IsAssignment(result)

\* C3: when no complete assignment meets the constraints, solve() returns
\* None
C3_NoSolutionIsNone ==
    (pc = "done" /\ Solutions = {}) => result = None

\* solve() returned for two overlapping slots that both have words of their
\* length but no compatible pair
C3_Witness ==
    /\ pc = "done"
    /\ Solutions = {}
    /\ Cardinality(Slots) = 2
    /\ \A x \in Slots :
        /\ neighbors(Slots, x) # {}
        /\ \E word \in crossword.words : Len(word) = x.length

\* every word of every domain has a compatible word in the domain of every
\* overlapping slot
ArcConsistent(dom) ==
    \A x, y \in Slots :
        (x # y /\ SharedCell(x, y) # None) =>
            \A w \in dom[x] : \E v \in dom[y] :
                w[SharedCell(x, y)[1] + 1] = v[SharedCell(x, y)[2] + 1]

\* C4: after ac3() with arcs=None returns True, from any starting domains,
\* every word of domain(x) has a compatible word in domain(y) for every
\* overlapping pair (x, y)
C4_Ac3Sound ==
    (pc = "ac3_returned" /\ full /\ ac3_ok) => ArcConsistent(domains)

\* ac3() returned True after removing words, and left a word in some domain
C4_Witness ==
    /\ pc = "ac3_returned"
    /\ full
    /\ ac3_ok
    /\ domains # ac3_entry
    /\ \E v \in Slots : domains[v] # {}

\* C5: if some domain is empty after enforce_node_consistency,
\* the ac3() call that follows returns False
C5_EmptyDomainFails ==
    (pc = "ac3_returned" /\ ctx = "pre" /\ \E v \in Slots : ac3_entry[v] = {})
        => ~ac3_ok

\* C6: after enforce_node_consistency every slot's domain is exactly the
\* words of the word list that have the slot's length
C6_NodeConsistent ==
    pc = "ac3_call" =>
        \A v \in Slots :
            domains[v] = { w \in crossword.words : Len(w) = v.length }

\* enforce_node_consistency removed a word from a slot and kept another
C6_Witness ==
    /\ pc = "ac3_call"
    /\ op = "enforce_node_consistency"
    /\ \E v \in Slots : domains[v] # {} /\ domains[v] # crossword.words

\* C7: the second run on the same structure and word list
\* returns what the first run returned
C7_Deterministic ==
    (pc = "done" /\ rerun) => result = first

\* C8: no execution of solve() raises; a backtrack call returns None or a
\* complete assignment, and so does solve()
C8_FailureByReturnValue ==
    /\ pc # "raised"
    /\ pc = "return" => (retval = None \/ DOMAIN retval[1] = Slots)
    /\ pc = "done" => (result = None \/ DOMAIN result[1] = Slots)

\* solve() returned None for a structure with slots and an empty word list
C8_Witness ==
    /\ pc = "done"
    /\ result = None
    /\ Slots # {}
    /\ crossword.words = {}

\* each domain of the next state is within the domain of this state
Shrinks == \A v \in Slots : domains'[v] \subseteq domains[v]

\* C9: every domain is always within the word list; every step other than
\* the restoring of a snapshot leaves each domain within what it was; and
\* when ac3 returns, each domain is within what it was when ac3 was called
C9_DomainsOnlyShrink ==
    /\ [](\A v \in Slots : domains[v] \subseteq crossword.words)
    /\ [][op' # "restore" => Shrinks]_vars
    /\ [](pc = "ac3_returned" => \A v \in Slots : domains[v] \subseteq ac3_entry[v])

\* a revise of a forward check removed a word
C9_Witness ==
    /\ pc = "ac3"
    /\ ctx = "fwd"
    /\ op = "revised"

\* C10: when a backtrack call returns None the domains are those it was
\* entered with: at the head of its loop the domains are the entry domains,
\* and every snapshot held by an active call equals that call's entry domains
C10_FailureRestoresDomains ==
    /\ [][(pc = "loop" /\ pc' = "return") => domains' = Top.entry_domains]_vars
    /\ [](pc = "loop" => domains = Top.entry_domains)
    /\ [](\A k \in 1..Len(stack) :
            stack[k].saved_domains = stack[k].entry_domains)

\* a nested backtrack call returned None after a forward check that had
\* succeeded, and changed the domains, was undone
C10_Witness ==
    /\ pc = "return"
    /\ retval = None
    /\ stack # <<>>
    /\ ctx = "fwd"
    /\ ac3_ok
    /\ domains # ac3_entry

\* C11: no step of solve() changes the slot set, the overlap map or the word
\* list (the neighbor sets are fixed by the slots' cells); a revise of the
\* arc (x, y) changes the domain of no slot other than x; and
\* enforce_node_consistency leaves in each slot's domain every word of that
\* slot's length, whatever it removes from the other slots' domains
C11_StructureUnchanged ==
    /\ [][crossword' = crossword]_vars
    /\ [][op' \in {"revised", "emptied", "unchanged"} =>
            \A v \in Slots \ {Head(queue)[1]} : domains'[v] = domains[v]]_vars
    /\ [][op' = "enforce_node_consistency" =>
            \A v \in Slots : \A word \in domains[v] :
                Len(word) = v.length => word \in domains'[v]]_vars

\* solve() returned after words were removed from the domains of two slots
\* of different lengths, each keeping a word the other lost
C11_Witness ==
    /\ pc = "done"
    /\ \E u, v \in Slots :
          /\ domains[u] \ domains[v] # {}
          /\ domains[v] \ domains[u] # {}

\* C12: in the scenario of two length-3 slots crossing at their first
\* letters with the word list {cat, car}, solve() returns an assignment that
\* gives the two slots different words of the list
C12_ScenarioDistinct ==
    (pc = "done" /\ Slots = Scenario /\ crossword.words = ScenarioWords) =>
        /\ IsAssignment(result)
        /\ result[1] \in [Scenario -> ScenarioWords]
        /\ result[1][SlotG] # result[1][SlotH]

\* in the scenario, the second backtrack call has just rejected the word its
\* caller gave to the other slot
C12_Witness ==
    /\ Slots = Scenario
    /\ crossword.words = ScenarioWords
    /\ pc = "loop"
    /\ op = "continue"
    /\ Len(stack) = 2
    /\ Top.assignment[stack[1].var] \in ScenarioWords

\* the overlap map has no entry for (x, y), or holds None for it
Unconstrained(x, y) == missing(x, y) \/ overlaps(x, y) = None

\* the pairs of distinct slots that do have an index pair in the overlap map
ConstrainedPairs ==
    { p \in Slots \X Slots : p[1] # p[2] /\ ~Unconstrained(p[1], p[2]) }

\* the words are pairwise distinct and agree at the overlap of every pair of
\* assigned slots that has an index pair in the overlap map
AgreesWhereConstrained(a) ==
    /\ \A u, v \in DOMAIN a : u # v => a[u] # a[v]
    /\ \A p \in ConstrainedPairs :
          (p[1] \in DOMAIN a /\ p[2] \in DOMAIN a) =>
              a[p[1]][overlaps(p[1], p[2])[1] + 1]
                  = a[p[2]][overlaps(p[1], p[2])[2] + 1]

\* the number of words of the unassigned neighbors of var, over the pairs
\* that have an index pair in the overlap map, that differ from word at the
\* overlap
Eliminated(dom, var, a, word) ==
    SumOver([n \in { m \in neighbors(Slots, var) \ DOMAIN a :
                        <<var, m>> \in ConstrainedPairs } |->
                Cardinality({ n_word \in dom[n] :
                    word[overlaps(var, n)[1] + 1]
                        # n_word[overlaps(var, n)[2] + 1] })],
            { m \in neighbors(Slots, var) \ DOMAIN a :
                <<var, m>> \in ConstrainedPairs })

\* C13: for neighbors x, y whose overlap has no entry or is None,
\* revise(x, y) returns False and changes nothing; consistent, on words of
\* the slots' lengths, returns whether the words are distinct and agree at
\* the other overlaps; order_domain_values returns the words in ascending
\* order of the eliminations counted over the other neighbors; none raises
C13_NoOverlapNeverViolated ==
    /\ (/\ call # None
        /\ call[1] = "revise"
        /\ call[3] \in neighbors(Slots, call[2])
        /\ Unconstrained(call[2], call[3]))
          => (pc = "returned" /\ retval = Some(FALSE) /\ domains = ac3_entry)
    /\ (/\ call # None
        /\ call[1] = "consistent"
        /\ \A v \in DOMAIN call[2] : Len(call[2][v]) = v.length
        /\ \E x, y \in DOMAIN call[2] :
              y \in neighbors(Slots, x) /\ Unconstrained(x, y))
          => (pc = "returned"
              /\ retval = Some(AgreesWhereConstrained(call[2])))
    /\ (/\ call # None
        /\ call[1] = "order_domain_values"
        /\ \E n \in neighbors(Slots, call[2]) \ DOMAIN call[3] :
              Unconstrained(call[2], n))
          => (/\ pc = "returned"
              /\ { retval[1][k] : k \in 1..Len(retval[1]) } = domains[call[2]]
              /\ \A j, k \in 1..Len(retval[1]) :
                    j < k => Eliminated(domains, call[2], call[3], retval[1][j])
                              <= Eliminated(domains, call[2], call[3], retval[1][k]))

\* revise(x, y) was called and returned
ReviseReturned ==
    /\ pc = "returned"
    /\ call # None
    /\ call[1] = "revise"

\* the words of dom[x] that agree with some word of dom[y] at the cell the
\* two slots share
Supported(dom, x, y) ==
    { w \in dom[x] :
        \E v \in dom[y] :
            w[SharedCell(x, y)[1] + 1] = v[SharedCell(x, y)[2] + 1] }

\* C14: for slots x, y with an overlap, revise(x, y) leaves in domain(x)
\* exactly the words that agree with some word of domain(y) at the overlap,
\* and returns True iff it removed a word
C14_ReviseExact ==
    (ReviseReturned /\ SharedCell(call[2], call[3]) # None) =>
        /\ domains[call[2]] = Supported(ac3_entry, call[2], call[3])
        /\ retval = Some(domains[call[2]] # ac3_entry[call[2]])

\* revise removed a word of x and kept another, with two words in domain(y)
C14_Witness ==
    /\ ReviseReturned
    /\ retval = Some(TRUE)
    /\ domains[call[2]] # {}
    /\ Cardinality(ac3_entry[call[3]]) = 2

\* C15: revise(x, y) leaves the domain of every slot other than x as it
\* was, and when x and y share no cell it leaves every domain as it was and
\* returns False
C15_ReviseFrame ==
    ReviseReturned =>
        /\ \A v \in Slots \ {call[2]} : domains[v] = ac3_entry[v]
        /\ SharedCell(call[2], call[3]) = None =>
              (domains = ac3_entry /\ retval = Some(FALSE))

\* revise returned for two slots that share no cell, the first with words
\* and the second with none
C15_Witness ==
    /\ ReviseReturned
    /\ SharedCell(call[2], call[3]) = None
    /\ ac3_entry[call[2]] # {}
    /\ ac3_entry[call[3]] = {}

\* the arcs of the next worklist that come after those left of this one
Appended == SubSeq(queue', Len(queue), Len(queue'))

\* C16: a pass of the loop of ac3 revises the arc (x, y) at the front of
\* the worklist and keeps the other arcs in their order; behind them it
\* appends each arc (z, x), z a neighbor of x other than y, once, if the
\* revise removed a word and left domain(x) non-empty, and nothing otherwise
C16_FifoRequeue ==
    [][(pc = "ac3" /\ queue # <<>> /\ pc' # "raised") =>
        LET x == Head(queue)[1]
            y == Head(queue)[2]
        IN /\ domains'[x] = Supported(domains, x, y)
           /\ \A v \in Slots \ {x} : domains'[v] = domains[v]
           /\ Len(queue') >= Len(queue) - 1
           /\ SubSeq(queue', 1, Len(queue) - 1) = Tail(queue)
           /\ IF domains'[x] # domains[x] /\ domains'[x] # {}
              THEN /\ { Appended[k] : k \in 1..Len(Appended) }
                        = { <<z, x>> : z \in neighbors(Slots, x) \ {y} }
                   /\ Len(Appended) = Cardinality(neighbors(Slots, x) \ {y})
              ELSE Appended = <<>>]_vars

\* a revise removed a word and an arc that was still waiting in the
\* worklist was appended a second time
C16_Witness ==
    /\ pc = "ac3"
    /\ op = "revised"
    /\ \E k \in 1..(Len(queue) - 1) : queue[k] = queue[Len(queue)]

\* the revise of the arc at the front of the worklist removes the last
\* words of its first slot
Empties ==
    /\ domains[Head(queue)[1]] # {}
    /\ domains'[Head(queue)[1]] = {}

\* C17: ac3 returns False exactly from a pass whose revise emptied
\* domain(x), at once, with the rest of the worklist unprocessed; a pass
\* that does not empty domain(x) goes on; and ac3 returns True exactly when
\* it finds the worklist empty
C17_Ac3Result ==
    /\ [][(pc = "ac3" /\ pc' = "ac3_returned") =>
            IF queue = <<>>
            THEN ac3_ok' /\ domains' = domains
            ELSE ~ac3_ok' /\ Empties /\ queue' = Tail(queue)]_vars
    /\ [][(pc = "ac3" /\ pc' = "ac3") => (queue # <<>> /\ ~Empties)]_vars
    /\ [](pc = "ac3_returned" =>
            (ac3_ok <=> \A v \in Slots : domains[v] = {} => ac3_entry[v] = {}))

\* ac3 returned False and left arcs in the worklist
C17_Witness ==
    /\ pc = "ac3_returned"
    /\ ~ac3_ok
    /\ queue # <<>>

\* C18: every call of ac3, with arcs=None or with arcs given by the caller,
\* returns
C18_Ac3Terminates ==
    (pc = "ac3_call") ~> (pc = "ac3_returned")

\* ac3 was called with arcs given by the caller, appended arcs after a
\* removal, and returned True
C18_Witness ==
    /\ pc = "ac3_returned"
    /\ ctx = "call"
    /\ ~full
    /\ ac3_ok
    /\ \E v \in Slots : domains[v] # ac3_entry[v] /\ neighbors(Slots, v) # {}

\* C19: whatever the order in which the arcs of the worklist are taken, ac3
\* returns what it returns when it takes them in FIFO order, and when that
\* is True it leaves the same domains
C19_QueueOrderIrrelevant ==
    (pc = "ac3_returned" /\ call # None /\ call[1] = "ac3") =>
        /\ ac3_ok = Ac3Fifo(ac3_entry, call[2]).ok
        /\ ac3_ok => domains = Ac3Fifo(ac3_entry, call[2]).domains

\* ac3 returned True after taking an arc that was not at the front, removing
\* words from the domains of two slots
C19_Witness ==
    /\ pc = "ac3_returned"
    /\ call # None
    /\ call[1] = "ac3"
    /\ call[3]
    /\ ac3_ok
    /\ \E u, v \in Slots : /\ u # v
                            /\ domains[u] # ac3_entry[u]
                            /\ domains[v] # ac3_entry[v]

\* consistent(assignment) was called on a structure whose overlap map has
\* an entry for every pair of slots
ConsistentCalled ==
    /\ call # None
    /\ call[1] = "consistent"
    /\ crossword.overlaps = OverlapsOf(Slots)

\* every assigned word has the length of its slot
LengthsFit(a) == \A v \in DOMAIN a : Len(a[v]) = v.length

\* every two assigned slots that share a cell have the same letter in it
OverlapsAgree(a) ==
    \A x, y \in DOMAIN a :
        (x # y /\ SharedCell(x, y) # None) =>
            a[x][SharedCell(x, y)[1] + 1] = a[y][SharedCell(x, y)[2] + 1]

\* the assigned words are pairwise distinct, neighbors or not
AllDistinct(a) == \A u, v \in DOMAIN a : u # v => a[u] # a[v]

\* C20: consistent(assignment) returns True iff the assigned words are
\* pairwise distinct, each has its slot's length, and every two assigned
\* slots that share a cell agree on its letter; slots that are not assigned
\* play no part
C20_ConsistentIff ==
    ConsistentCalled =>
        ((pc = "returned" /\ retval = Some(TRUE))
            <=> (/\ AllDistinct(call[2])
                 /\ LengthsFit(call[2])
                 /\ OverlapsAgree(call[2])))

\* consistent returned False for a partial assignment that fits the lengths
\* and the overlaps but gives one word to two slots that share no cell
C20_Witness ==
    /\ ConsistentCalled
    /\ pc = "returned"
    /\ retval = Some(FALSE)
    /\ DOMAIN call[2] # Slots
    /\ LengthsFit(call[2])
    /\ OverlapsAgree(call[2])
    /\ \E u, v \in DOMAIN call[2] :
          u # v /\ SharedCell(u, v) = None /\ call[2][u] = call[2][v]

\* a backtrack call has just selected its slot
Selected == pc = "loop" /\ op = "select"

\* the slots without a word in the assignment of the innermost call
Unassigned == Slots \ DOMAIN Top.assignment

\* the number of slots that share a cell with v
Degree(v) == Cardinality({ u \in Slots : u # v /\ SharedCell(u, v) # None })

\* C21: the slot a backtrack call selects is unassigned, no unassigned slot
\* has fewer words left, and no unassigned slot with as few words left has
\* more neighbors
C21_SelectMrvDegree ==
    Selected =>
        /\ Top.var \in Unassigned
        /\ \A u \in Unassigned :
              Cardinality(domains[Top.var]) <= Cardinality(domains[u])
        /\ \A u \in Unassigned :
              Cardinality(domains[u]) = Cardinality(domains[Top.var])
                  => Degree(u) <= Degree(Top.var)

\* a slot was selected over an unassigned slot that has more words left and
\* more neighbors
C21_Witness ==
    /\ Selected
    /\ \E u \in Unassigned :
          /\ Cardinality(domains[u]) > Cardinality(domains[Top.var])
          /\ Degree(u) > Degree(Top.var)

\* order_domain_values(var, assignment) was called, on a structure whose
\* overlap map has an entry for every pair of slots, and returned
OrderReturned ==
    /\ pc = "returned"
    /\ call # None
    /\ call[1] = "order_domain_values"
    /\ crossword.overlaps = OverlapsOf(Slots)

\* the words of the domain of n that differ from word at the cell n shares
\* with var
Disagreeing(dom, var, n, word) ==
    { n_word \in dom[n] :
        word[SharedCell(var, n)[1] + 1] # n_word[SharedCell(var, n)[2] + 1] }

\* the elimination count of word: the words that disagree with it, summed
\* over the unassigned slots that share a cell with var
EliminationCount(dom, var, a, word) ==
    SumOver([n \in { m \in Slots \ DOMAIN a :
                        m # var /\ SharedCell(var, m) # None } |->
                Cardinality(Disagreeing(dom, var, n, word))],
            { m \in Slots \ DOMAIN a : m # var /\ SharedCell(var, m) # None })

\* C22: order_domain_values(var, assignment) returns each word of var's
\* domain once, in non-decreasing order of its elimination count over the
\* unassigned overlapping slots
C22_LcvOrder ==
    OrderReturned =>
        /\ Len(retval[1]) = Cardinality(domains[call[2]])
        /\ { retval[1][k] : k \in 1..Len(retval[1]) } = domains[call[2]]
        /\ \A j, k \in 1..Len(retval[1]) :
              j < k =>
                  EliminationCount(domains, call[2], call[3], retval[1][j])
                      <= EliminationCount(domains, call[2], call[3], retval[1][k])

\* order_domain_values returned words of different elimination counts for
\* a slot with an assigned and an unassigned neighbor, where the assigned
\* neighbor's domain holds a word that disagrees with the first word
C22_Witness ==
    /\ OrderReturned
    /\ Len(retval[1]) >= 2
    /\ EliminationCount(domains, call[2], call[3], retval[1][1])
          < EliminationCount(domains, call[2], call[3], retval[1][Len(retval[1])])
    /\ \E n \in DOMAIN call[3] :
          /\ SharedCell(call[2], n) # None
          /\ Disagreeing(domains, call[2], n, retval[1][1]) # {}
    /\ \E n \in Slots \ DOMAIN call[3] : SharedCell(call[2], n) # None

\* every slot of the assignment a has the domain {a[slot]}
Singletons(a) == \A v \in DOMAIN a : domains[v] = {a[v]}

\* a candidate has just passed the consistency check and the forward check
\* is about to run
Collapsed == pc = "ac3" /\ op = "collapse"

\* C23: after a candidate passed the consistency check the chosen slot's
\* domain is the singleton of the chosen word and the worklist of ac3 holds
\* exactly the arcs (neighbor, chosen slot); at every entry to backtrack
\* and when solve() returns an assignment, every assigned slot's domain is
\* the singleton of its word
C23_AssignedSingleton ==
    /\ Collapsed =>
          /\ domains[Top.var] = {Top.value}
          /\ Top.new_assignment[Top.var] = Top.value
          /\ consistent(Top.new_assignment)
          /\ { queue[k] : k \in 1..Len(queue) } =
                 { <<n, Top.var>> : n \in neighbors(Slots, Top.var) }
          /\ Len(queue) = Cardinality(neighbors(Slots, Top.var))
    /\ pc = "backtrack" => Singletons(arg)
    /\ (pc = "done" /\ result # None) => Singletons(result[1])

\* backtrack is entered with two slots assigned after a forward check that
\* removed words from the domain of a slot still unassigned
C23_Witness ==
    /\ pc = "backtrack"
    /\ Cardinality(DOMAIN arg) >= 2
    /\ \E v \in Slots \ DOMAIN arg :
          /\ domains[v] # ac3_entry[v]
          /\ Cardinality(domains[v]) >= 2

\* the active backtrack calls keep the assignment they were given
FramesKeepAssignment ==
    \A k \in 1..Len(stack) :
        k <= Len(stack') => stack'[k].assignment = stack[k].assignment

\* a call that begins records the assignment it was given, and a recursive
\* call is given the caller's assignment with the tentative pair added
TentativePassedDown ==
    /\ Len(stack') > Len(stack) => stack'[Len(stack')].assignment = arg
    /\ (pc = "ac3_returned" /\ ctx = "fwd" /\ pc' = "backtrack") =>
          /\ Top.var \notin DOMAIN Top.assignment
          /\ DOMAIN arg' = DOMAIN Top.assignment \cup {Top.var}
          /\ arg'[Top.var] = Top.value
          /\ \A v \in DOMAIN Top.assignment : arg'[v] = Top.assignment[v]

\* C24: a backtrack call never changes the assignment it was given, also
\* across a failed candidate or a failed recursive call; the tentative pair
\* is only in the assignment passed to the recursive call
C24_AssignmentUnchanged ==
    [][FramesKeepAssignment /\ TentativePassedDown]_vars

\* a call that was given a non-empty assignment is back in its loop after
\* a candidate of its own failed, with the assignment it was given
C24_Witness ==
    /\ pc = "loop"
    /\ op = "restore"
    /\ DOMAIN Top.assignment # {}
    /\ Top.value # None
    /\ Top.var \notin DOMAIN Top.assignment
    /\ Top.new_assignment # Top.assignment

\* the backtrack calls that are active: one frame for each call in its
\* loop, and the call that is being entered
Depth == Len(stack) + (IF pc = "backtrack" THEN 1 ELSE 0)

\* the k-th nested call was given an assignment of k - 1 slots
DepthBounded ==
    /\ Depth <= Cardinality(Slots) + 1
    /\ \A k \in 1..Len(stack) :
          Cardinality(DOMAIN stack[k].assignment) = k - 1
    /\ pc = "backtrack" => Cardinality(DOMAIN arg) = Len(stack)

\* a recursive call is given one slot more than its caller was given
OneMoreSlot ==
    (pc = "ac3_returned" /\ ctx = "fwd" /\ pc' = "backtrack") =>
        Cardinality(DOMAIN arg') = Cardinality(DOMAIN Top.assignment) + 1

\* C25: solve() terminates; the depth of nested backtrack calls never
\* exceeds the number of slots plus one, and each recursive call is given
\* an assignment with exactly one more slot than its caller's
C25_Terminates ==
    /\ <>(pc = "done")
    /\ []DepthBounded
    /\ [][OneMoreSlot]_vars

\* the deepest call: on a structure of three slots the fourth nested call
\* is entered with every slot assigned
C25_Witness ==
    /\ pc = "backtrack"
    /\ Cardinality(Slots) = 3
    /\ Depth = Cardinality(Slots) + 1
    /\ Cardinality(DOMAIN arg) = 3

\* the preprocessing ac3 of solve() has returned False, and no candidate
\* has been tried since
PreprocessingFailed ==
    /\ ctx = "pre"
    /\ ~ac3_ok
    /\ pc \in {"ac3_returned", "backtrack", "loop", "return", "done"}

\* no active backtrack call holds a tentative value
NothingTried == \A k \in 1..Len(stack) : stack[k].value = None

\* solve() goes from the return of the preprocessing ac3 to backtrack
\* whatever ac3 returned
EntersBacktrack ==
    (pc = "ac3_returned" /\ ctx = "pre") =>
        /\ pc' = "backtrack"
        /\ arg' = EmptyAssignment
        /\ domains' = domains

\* after a failed preprocessing no candidate is tried, no forward check is
\* run, no exception is raised and the value of solve() is None
FailsWithoutSearch ==
    PreprocessingFailed =>
        /\ PreprocessingFailed'
        /\ NothingTried'
        /\ pc' # "ac3"
        /\ pc' = "done" => result' = None

\* C26: solve() discards the result of the preprocessing ac3 and always
\* enters backtrack; when that ac3 returned False, solve() returns None
\* without tentatively assigning a slot or running a forward check
C26_PreprocessingResultDiscarded ==
    [][EntersBacktrack /\ FailsWithoutSearch]_vars

\* solve() has returned None after a preprocessing ac3 that returned False,
\* on a structure where other slots still had words
C26_Witness ==
    /\ pc = "done"
    /\ PreprocessingFailed
    /\ result = None
    /\ \E v \in Slots : Cardinality(domains[v]) >= 2

\* C27: when the preprocessing ac3 returned True, the domains are arc
\* consistent at every entry to backtrack; a forward check that returns
\* True leaves every overlapping pair arc consistent, not only the pairs
\* of the arcs it was seeded with
C27_ArcConsistentAtEntry ==
    /\ (pc = "backtrack" /\ ac3_ok) => ArcConsistent(domains)
    /\ (pc = "ac3_returned" /\ ctx = "fwd" /\ ac3_ok) => ArcConsistent(domains)

\* backtrack is entered after a forward check that removed words from the
\* domain of a slot that does not overlap the chosen slot
C27_Witness ==
    /\ pc = "backtrack"
    /\ ctx = "fwd"
    /\ stack # <<>>
    /\ \E z \in Slots \ (neighbors(Slots, Top.var) \cup {Top.var}) :
          /\ domains[z] # ac3_entry[z]
          /\ domains[z] # {}

\* the complete assignments that take each slot's word from its domain in
\* dom and agree at every shared cell
OverlapSolutions(dom) ==
    { a \in [Slots -> UNION { dom[v] : v \in Slots }] :
        /\ \A v \in Slots : a[v] \in dom[v]
        /\ \A x, y \in Slots :
              (x # y /\ SharedCell(x, y) # None) =>
                  a[x][SharedCell(x, y)[1] + 1] = a[y][SharedCell(x, y)[2] + 1] }

\* no word that a step of ac3 removes from domain(x) is the word of x in a
\* complete assignment from the domains held before the step
RemovalPreserves ==
    pc = "ac3" =>
        \A x \in Slots : \A word \in domains[x] \ domains'[x] :
            \A a \in OverlapSolutions(domains) : a[x] # word

\* when ac3 returns False the domains it was started on have no complete
\* assignment
FailureMeansNone ==
    (pc = "ac3" /\ pc' = "ac3_returned" /\ ~ac3_ok') =>
        OverlapSolutions(ac3_entry) = {}

\* C28: a word that revise removes during ac3, in preprocessing or in a
\* forward check, is not the word of its slot in any complete assignment
\* drawn from the domains held just before the removal that satisfies every
\* overlap constraint; an ac3 that fails was started on domains with no
\* such assignment
C28_PruningPreservesSolutions ==
    [][RemovalPreserves /\ FailureMeansNone]_vars

\* a forward check has just removed a word while complete assignments from
\* the collapsed domains exist, all of them still drawn from the domains
C28_Witness ==
    /\ pc = "ac3"
    /\ op = "revised"
    /\ ctx = "fwd"
    /\ domains # ac3_entry
    /\ OverlapSolutions(ac3_entry) # {}
    /\ OverlapSolutions(domains) = OverlapSolutions(ac3_entry)

===========================================================================
